---- MODULE Spec2Model ----
(***************************************************************************)
(* Model of src/hooks/web/useCrudSchemas.ts: the projection of one unified *)
(* CrudSchema tree into searchSchema, tableColumns, formSchema and         *)
(* detailSchema, with the deferred option-fetch tasks of the search        *)
(* projection.                                                             *)
(*                                                                         *)
(* Encoding of JavaScript values:                                          *)
(*  - an absent key / undefined is the string "absent" for string-valued   *)
(*    keys, NoRef for an object reference, [set |-> FALSE, ...] for a list;*)
(*  - objects that the code shares by reference (componentProps) live in   *)
(*    `heap`, records hold a reference to them;                            *)
(*  - every output record carries `node`, the index of the input node it   *)
(*    was built from (not a key of the program's record; it names the      *)
(*    record's origin so that properties can speak about it).              *)
(***************************************************************************)
EXTENDS Integers, Sequences, FiniteSets, TLC

\* Largest number of nodes of an input tree.
MaxNodes == 2

Absent == "absent"

NoRef == <<"none", 0>>
InRef(n) == <<"in", n>>
NewRef(n) == <<"new", n>>

NoList == [set |-> FALSE, list |-> <<>>]
List(l) == [set |-> TRUE, list |-> l]

Opt(v, l) == [value |-> v, label |-> l, labelField |-> Absent]

\* The option lists a dictionary entry or a fetch can carry.
L1 == <<Opt(1, "a"), Opt(2, "b")>>
L2 == <<Opt(2, "b")>>
L0 == <<Opt(0, "z")>>

\* useI18n().t: a message key is replaced by its message, any other string
\* is returned as it is.
t(key) ==
    CASE key = "a" -> "A"
      [] key = "b" -> "B"
      [] key = "z" -> "Z"
      [] key = Absent -> ""
      [] OTHER -> key

\* dictStore.getDictObj: one dictionary, "d"; no other name has an entry.
DictInit == [d |-> L1]
DictNames == {"d"}

getDictObj(dict, name) == IF name \in DictNames THEN List(dict[name]) ELSE NoList

----------------------------------------------------------------------------
(* The input: CrudSchema[] *)

EmptyProps == [options |-> NoList, labelField |-> Absent]

\* What a search block's componentProps literal holds, by kind: `{}`, or
\* `{options: L0, optionsAlias: {labelField: 'name'}}`.
PropsOfKind(k) ==
    CASE k = "empty" -> EmptyProps
      [] k = "filled" -> [options |-> List(L0), labelField |-> "name"]

NoBlock == [show |-> Absent, component |-> Absent]
NoSearch == [show |-> Absent, dictName |-> Absent, api |-> FALSE,
             component |-> Absent, props |-> "none"]

SearchKinds ==
    { NoSearch,
      [NoSearch EXCEPT !.show = "true"],
      [NoSearch EXCEPT !.show = "true", !.dictName = "d", !.props = "empty"],
      [NoSearch EXCEPT !.show = "true", !.dictName = "missing"],
      [NoSearch EXCEPT !.show = "true", !.api = TRUE, !.component = "Select"],
      [NoSearch EXCEPT !.show = "true", !.api = TRUE, !.props = "filled"],
      [NoSearch EXCEPT !.show = "true", !.api = TRUE, !.dictName = "d",
                       !.component = "Select"] }

\* Nodes that differ in their search block; the other views are left to
\* their defaults.
SearchFamily ==
    { [field |-> f, label |-> "Label", search |-> s, table |-> NoBlock,
       form |-> NoBlock, detail |-> NoBlock] :
         f \in {"x", "y"}, s \in SearchKinds }

Shown(hidden, explicit) ==
    IF hidden THEN "false" ELSE IF explicit THEN "true" ELSE Absent

\* Nodes that differ in the visibility of the table, form and detail views.
ViewFamily(explicit) ==
    { [field |-> f, label |-> "Label",
       search |-> [NoSearch EXCEPT !.show = IF explicit THEN "false" ELSE Absent],
       table |-> [NoBlock EXCEPT !.show = Shown(ht, explicit)],
       form |-> [NoBlock EXCEPT !.show = Shown(hf, explicit),
                                !.component = IF explicit THEN "Select" ELSE Absent],
       detail |-> [NoBlock EXCEPT !.show = Shown(hd, explicit)]] :
         f \in {"x", ""}, ht \in BOOLEAN, hf \in BOOLEAN, hd \in BOOLEAN }

\* parent[i] is the index of node i's parent, 0 for a node of the top list;
\* the children of a node are listed in increasing index.
Shapes(n) == { p \in [1..n -> 0..n] : \A i \in 1..n : p[i] < i }

\* The node's search block as the program holds it: componentProps is a
\* reference to the object the literal created, props says what the literal
\* was.
WithRef(kind, i) ==
    [field |-> kind.field, label |-> kind.label,
     search |-> [show |-> kind.search.show, dictName |-> kind.search.dictName,
                 api |-> kind.search.api, component |-> kind.search.component,
                 props |-> kind.search.props,
                 componentProps |-> IF kind.search.props = "none" THEN NoRef ELSE InRef(i)],
     table |-> kind.table, form |-> kind.form, detail |-> kind.detail]

InputHeap(kinds) ==
    LET refs == { InRef(i) : i \in { j \in DOMAIN kinds : kinds[j].search.props # "none" } }
    IN [r \in refs |-> PropsOfKind(kinds[r[2]].search.props)]

----------------------------------------------------------------------------
(* utils/tree and utils/index *)

RECURSIVE ChildrenFrom(_, _, _)
ChildrenFrom(schema, p, i) ==
    IF i > schema.n THEN <<>>
    ELSE (IF schema.parent[i] = p THEN <<i>> ELSE <<>>) \o ChildrenFrom(schema, p, i + 1)

\* node.children of node p; the top-level list for p = 0.
Children(schema, p) == ChildrenFrom(schema, p, 1)

\* eachTree(treeDatas, callBack): the order in which callBack receives the
\* nodes: every node, a node before its children, the children in list order.
RECURSIVE eachTree(_, _)
eachTree(schema, treeDatas) ==
    IF treeDatas = <<>> THEN <<>>
    ELSE <<Head(treeDatas)>> \o eachTree(schema, Children(schema, Head(treeDatas)))
                             \o eachTree(schema, Tail(treeDatas))

\* A search for the last match instead of the first.
RECURSIVE findLastIndexFrom(_, _, _)
findLastIndexFrom(ary, field, i) ==
    IF i = 0 THEN 0
    ELSE IF ary[i].field = field THEN i
    ELSE findLastIndexFrom(ary, field, i - 1)

findLastIndex(ary, field) == findLastIndexFrom(ary, field, Len(ary))

\* findIndex(ary, v => v.field === field): the first index, 0 for -1.
RECURSIVE findIndexFrom(_, _, _)
findIndexFrom(ary, field, i) ==
    IF i > Len(ary) THEN 0
    ELSE IF ary[i].field = field THEN i
    ELSE findIndexFrom(ary, field, i + 1)

findIndex(ary, field) == findIndexFrom(ary, field, 1)

----------------------------------------------------------------------------
(* filterOptions *)

\* options.map(...) on a value that is no list throws a TypeError.
filterOptionsThrows(options) == ~options.set

\* The record v after the callback of options.map: with a labelField the key
\* literally named labelField is written, else label is translated.
filterOption(v, labelField) ==
    IF labelField # Absent
    THEN [v EXCEPT !.labelField = t(v.labelField)]
    ELSE [v EXCEPT !.label = t(v.label)]

\* A translation that returns the entries in reverse order.
filterOptionsReversed(options, labelField) ==
    [i \in 1..Len(options) |-> filterOption(options[Len(options) + 1 - i], labelField)]

filterOptions(options, labelField) ==
    [i \in 1..Len(options) |-> filterOption(options[i], labelField)]

----------------------------------------------------------------------------
(* filterSearchSchema *)

SearchShow(schemaItem) == schemaItem.search.show = "true"

\* The record of lines 92-99, after the deletes of lines 123-124 (show and
\* dictName are absent keys of it).
searchSchemaItem(schemaItem, n) ==
    [node |-> n,
     field |-> schemaItem.field,
     label |-> schemaItem.label,
     component |-> IF schemaItem.search.component # Absent
                   THEN schemaItem.search.component ELSE "input",
     api |-> schemaItem.search.api,
     componentProps |-> IF schemaItem.search.componentProps # NoRef
                        THEN schemaItem.search.componentProps ELSE NewRef(n)]

\* The heap once the record of node n exists: `componentProps: {}` is a new
\* object unless the spread of the search block replaced it.
AllocProps(h, schemaItem, n) ==
    IF schemaItem.search.componentProps # NoRef THEN h
    ELSE h @@ (NewRef(n) :> EmptyProps)

HasDictName(schemaItem) == schemaItem.search.dictName # Absent

HasApi(schemaItem) == schemaItem.search.api

\* One call of the eachTree callback of filterSearchSchema, on node n.
\* acc holds the locals searchSchema and searchRequestTask, the heap, the
\* dictionary store and whether an exception is propagating.
SearchCallback(schema, acc, n) ==
    LET schemaItem == schema.node[n]
        item == searchSchemaItem(schemaItem, n)
        h == AllocProps(acc.heap, schemaItem, n)
        dictArr == getDictObj(acc.dict, schemaItem.search.dictName)
        opts == filterOptions(dictArr.list, Absent)
    IN  IF acc.threw \/ ~SearchShow(schemaItem) THEN acc
        ELSE IF HasDictName(schemaItem)
        THEN IF filterOptionsThrows(dictArr)
             THEN [acc EXCEPT !.heap = h, !.threw = TRUE]
             ELSE [acc EXCEPT
                     !.heap = [h EXCEPT ![item.componentProps].options = List(opts)],
                     !.dict = [acc.dict EXCEPT ![schemaItem.search.dictName] = opts],
                     !.searchSchema = Append(acc.searchSchema, item)]
        ELSE IF HasApi(schemaItem)
        THEN [acc EXCEPT !.heap = h,
                         !.searchRequestTask = Append(acc.searchRequestTask, n),
                         !.searchSchema = Append(acc.searchSchema, item)]
        ELSE [acc EXCEPT !.heap = h,
                         !.searchSchema = Append(acc.searchSchema, item)]

RECURSIVE SearchFold(_, _, _)
SearchFold(schema, order, acc) ==
    IF order = <<>> THEN acc
    ELSE SearchFold(schema, Tail(order), SearchCallback(schema, acc, Head(order)))

\* Lines 84-128: the locals after eachTree has returned or thrown.
filterSearchSchema(schema, h, dict) ==
    SearchFold(schema, eachTree(schema, Children(schema, 0)),
               [searchSchema |-> <<>>, searchRequestTask |-> <<>>,
                heap |-> h, dict |-> dict, threw |-> FALSE])

----------------------------------------------------------------------------
(* filterFormSchema, filterDescriptionsSchema *)

\* A form projection that shows a node only on an explicit `show: true`.
FormShowStrict(schemaItem) == schemaItem.form.show = "true"

FormShow(schemaItem) == schemaItem.form.show # "false"

formSchemaItem(schemaItem, n) ==
    [node |-> n, field |-> schemaItem.field, label |-> schemaItem.label,
     component |-> IF schemaItem.form.component # Absent
                   THEN schemaItem.form.component ELSE "Input"]

RECURSIVE FormFold(_, _)
FormFold(schema, order) ==
    IF order = <<>> THEN <<>>
    ELSE (IF FormShow(schema.node[Head(order)])
          THEN <<formSchemaItem(schema.node[Head(order)], Head(order))>> ELSE <<>>)
         \o FormFold(schema, Tail(order))

filterFormSchema(schema) == FormFold(schema, eachTree(schema, Children(schema, 0)))

DetailShow(schemaItem) == schemaItem.detail.show # "false"

descriptionsSchemaItem(schemaItem, n) ==
    [node |-> n, field |-> schemaItem.field, label |-> schemaItem.label]

RECURSIVE DetailFold(_, _)
DetailFold(schema, order) ==
    IF order = <<>> THEN <<>>
    ELSE (IF DetailShow(schema.node[Head(order)])
          THEN <<descriptionsSchemaItem(schema.node[Head(order)], Head(order))>> ELSE <<>>)
         \o DetailFold(schema, Tail(order))

filterDescriptionsSchema(schema) ==
    DetailFold(schema, eachTree(schema, Children(schema, 0)))

----------------------------------------------------------------------------
(* filterTableSchema *)

\* A table projection that shows a node only on an explicit `show: true`.
TableShowStrict(schema) == schema.table.show = "true"

TableShow(schema) == schema.table.show # "false"

\* conversion: the merged record, or a record without keys for `undefined`.
\* show is the key of the table block; field and label are the node's.
conversion(schemaItem, n) ==
    IF TableShow(schemaItem)
    THEN [node |-> n, field |-> schemaItem.field, label |-> schemaItem.label,
          show |-> schemaItem.table.show, children |-> NoList]
    ELSE [node |-> n, field |-> "", label |-> Absent,
          show |-> Absent, children |-> NoList]

\* treeMap: the tree of the same shape with conversion applied to every node,
\* the mapped children attached to whatever conversion produced.
RECURSIVE treeMap(_, _)
treeMap(schema, treeData) ==
    [i \in 1..Len(treeData) |->
        LET n == treeData[i]
            kids == Children(schema, n)
        IN  [conversion(schema.node[n], n) EXCEPT
               !.children = IF kids = <<>> THEN NoList
                            ELSE List(treeMap(schema, kids))]]

\* The predicate of line 151-156.
TablePredicate(data) == data.field # ""

\* filter: children first, a child kept only if the predicate holds of it; an
\* empty children list loses its key.
RECURSIVE filter(_)
filter(tree) ==
    LET kept(node) ==
            LET c == IF node.children.set THEN filter(node.children.list) ELSE <<>>
            IN  [node EXCEPT !.children = IF c = <<>> THEN NoList ELSE List(c)]
        F[i \in 0..Len(tree)] ==
            IF i = 0 THEN <<>>
            ELSE IF TablePredicate(tree[i]) THEN Append(F[i - 1], kept(tree[i]))
            ELSE F[i - 1]
    IN  F[Len(tree)]

filterTableSchema(schema) == filter(treeMap(schema, Children(schema, 0)))

----------------------------------------------------------------------------
(* useCrudSchemas and the tasks it leaves behind *)

VARIABLES
    crudSchema,     \* the argument: [n, parent, node]
    heap,           \* the componentProps objects, by reference
    dictObj,        \* dictStore.getDictObj
    allSchemas,     \* the reactive aggregate of line 58
    searchSchema,   \* the const of line 65
    pc,             \* the statement useCrudSchemas is at
    task,           \* per node, the state of the async function pushed for it
    fetch,          \* per node, the promise its api() returned
    written         \* <<n, i>>: the task of node n has assigned the options of
                    \* allSchemas.searchSchema[i]

vars == <<crudSchema, heap, dictObj, allSchemas, searchSchema, pc, task, fetch, written>>

Nodes == 1..crudSchema.n

Pending == [kind |-> "pending", data |-> NoList]
NotCalled == [kind |-> "none", data |-> NoList]

\* What the promise of an api() call can settle to: a rejection, undefined,
\* an object without data, an object with a data list.
FetchResults ==
    { [kind |-> "reject", data |-> NoList],
      [kind |-> "undefined", data |-> NoList],
      [kind |-> "object", data |-> NoList],
      [kind |-> "object", data |-> List(L1)],
      [kind |-> "object", data |-> List(L2)] }

Trees(n) ==
    [1..n -> SearchFamily] \cup [1..n -> ViewFamily(FALSE)] \cup [1..n -> ViewFamily(TRUE)]

Init ==
    \E n \in 1..MaxNodes :
      \E p \in Shapes(n), kinds \in Trees(n) :
        /\ crudSchema = [n |-> n, parent |-> p,
                         node |-> [i \in 1..n |-> WithRef(kinds[i], i)]]
        /\ heap = InputHeap(kinds)
        /\ dictObj = DictInit
        /\ allSchemas = [searchSchema |-> <<>>, tableColumns |-> <<>>,
                         formSchema |-> <<>>, detailSchema |-> <<>>]
        /\ searchSchema = <<>>
        /\ pc = "start"
        /\ task = [i \in 1..n |-> "none"]
        /\ fetch = [i \in 1..n |-> NotCalled]
        /\ written = {}

InSeq(x, seq) == \E i \in 1..Len(seq) : seq[i] = x

\* The loop of lines 130-132: task() runs the async function up to its await,
\* that is, it calls api() and suspends.
InvokeTasks(searchRequestTask) ==
    /\ task' = [i \in Nodes |-> IF InSeq(i, searchRequestTask) THEN "awaiting" ELSE task[i]]
    /\ fetch' = [i \in Nodes |-> IF InSeq(i, searchRequestTask) THEN Pending ELSE fetch[i]]

\* Line 65. A TypeError of filterOptions leaves useCrudSchemas by exception.
FilterSearch ==
    /\ pc = "start"
    /\ LET r == filterSearchSchema(crudSchema, heap, dictObj)
       IN  /\ heap' = r.heap
           /\ dictObj' = r.dict
           /\ IF r.threw
              THEN /\ pc' = "threw"
                   /\ UNCHANGED <<searchSchema, task, fetch>>
              ELSE /\ pc' = "search"
                   /\ searchSchema' = r.searchSchema
                   /\ InvokeTasks(r.searchRequestTask)
    /\ UNCHANGED <<crudSchema, allSchemas, written>>

\* Line 66.
AssignSearch ==
    /\ pc = "search"
    /\ allSchemas' = [allSchemas EXCEPT !.searchSchema = searchSchema]
    /\ pc' = "table"
    /\ UNCHANGED <<crudSchema, heap, dictObj, searchSchema, task, fetch, written>>

\* Lines 68-69.
Table ==
    /\ pc = "table"
    /\ allSchemas' = [allSchemas EXCEPT !.tableColumns = filterTableSchema(crudSchema)]
    /\ pc' = "form"
    /\ UNCHANGED <<crudSchema, heap, dictObj, searchSchema, task, fetch, written>>

\* Lines 71-72.
Form ==
    /\ pc = "form"
    /\ allSchemas' = [allSchemas EXCEPT !.formSchema = filterFormSchema(crudSchema)]
    /\ pc' = "detail"
    /\ UNCHANGED <<crudSchema, heap, dictObj, searchSchema, task, fetch, written>>

\* Lines 74-75.
Detail ==
    /\ pc = "detail"
    /\ allSchemas' = [allSchemas EXCEPT !.detailSchema = filterDescriptionsSchema(crudSchema)]
    /\ pc' = "return"
    /\ UNCHANGED <<crudSchema, heap, dictObj, searchSchema, task, fetch, written>>

\* Lines 77-79.
Return ==
    /\ pc = "return"
    /\ pc' = "returned"
    /\ UNCHANGED <<crudSchema, heap, dictObj, allSchemas, searchSchema, task, fetch, written>>

\* A task whose code after the fetch runs as soon as the task has been called.
ResumesAtOnce == pc \notin {"start", "threw"}

\* A task whose code after the fetch may run ahead of the return statement.
ResumesBeforeReturn == pc \in {"return", "returned"}

\* `await` of line 107: the async function is suspended until the promise has
\* settled, and what follows the await is a job of its own, run when no other
\* code is running: not before useCrudSchemas has returned.
AwaitResumes == pc = "returned"

\* The promise of node n's api() settles; the data source decides how. The
\* task observes the outcome at its await, no earlier.
FetchSettle(n) ==
    /\ AwaitResumes
    /\ fetch[n].kind = "pending"
    /\ \E r \in FetchResults : fetch' = [fetch EXCEPT ![n] = r]
    /\ UNCHANGED <<crudSchema, heap, dictObj, allSchemas, searchSchema, pc, task, written>>

\* The searchSchemaItem the task of node n has closed over.
OwnItem(n) == searchSchemaItem(crudSchema.node[n], n)

\* A task that patches the head of the list whatever its field.
PatchHead(ary, item) == IF Len(ary) > 0 THEN 1 ELSE 0

\* Lines 109-111.
PatchIndex(ary, item) == findIndex(ary, item.field)

\* Lines 113-116: the heap after the assignment of options.
Patch(h, target, data, labelField) ==
    [h EXCEPT ![target.componentProps].options = List(filterOptions(data, labelField))]

\* Lines 107-118, from the await on.
TaskResume(n) ==
    /\ AwaitResumes
    /\ task[n] = "awaiting"
    /\ fetch[n].kind \notin {"none", "pending"}
    /\ LET res == fetch[n]
           item == OwnItem(n)
           index == PatchIndex(allSchemas.searchSchema, item)
           labelField == heap[item.componentProps].labelField
       IN  IF res.kind = "reject"
           THEN /\ task' = [task EXCEPT ![n] = "rejected"]
                /\ UNCHANGED <<heap, written>>
           ELSE IF res.kind = "undefined" \/ index = 0
           THEN /\ task' = [task EXCEPT ![n] = "fulfilled"]
                /\ UNCHANGED <<heap, written>>
           ELSE IF filterOptionsThrows(res.data)
           THEN /\ task' = [task EXCEPT ![n] = "rejected"]
                /\ UNCHANGED <<heap, written>>
           ELSE /\ heap' = Patch(heap, allSchemas.searchSchema[index],
                                 res.data.list, labelField)
                /\ written' = written \cup {<<n, index>>}
                /\ task' = [task EXCEPT ![n] = "fulfilled"]
    /\ UNCHANGED <<crudSchema, dictObj, allSchemas, searchSchema, pc, fetch>>

Next ==
    \/ FilterSearch
    \/ AssignSearch
    \/ Table
    \/ Form
    \/ Detail
    \/ Return
    \/ \E n \in Nodes : FetchSettle(n)
    \/ \E n \in Nodes : TaskResume(n)

Spec == Init /\ [][Next]_vars

\* A task whose promise has settled is a job in the queue of the JavaScript
\* engine, and a job in the queue is run. Whether a promise settles is up to
\* the data source.
Job == \E n \in Nodes : TaskResume(n)

FairSpec == Spec /\ WF_vars(Job)

----------------------------------------------------------------------------
(* Vocabulary of the properties *)

Min(a, b) == IF a < b THEN a ELSE b

\* The indices from the top list down to n, n last.
RECURSIVE Path(_)
Path(n) == IF n = 0 THEN <<>> ELSE Append(Path(crudSchema.parent[n]), n)

\* a comes before b in depth-first pre-order: a is an ancestor of b, or where
\* their paths part a's branch is the earlier one of the children list.
Precedes(a, b) ==
    LET pa == Path(a)
        pb == Path(b)
    IN  \/ Len(pa) < Len(pb) /\ SubSeq(pb, 1, Len(pa)) = pa
        \/ \E k \in 1..Min(Len(pa), Len(pb)) :
              /\ SubSeq(pa, 1, k - 1) = SubSeq(pb, 1, k - 1)
              /\ pa[k] < pb[k]

\* list holds one record per node of visible, in pre-order, under the node's field.
IsProjection(list, visible) ==
    /\ Len(list) = Cardinality(visible)
    /\ {list[i].node : i \in 1..Len(list)} = visible
    /\ \A i, j \in 1..Len(list) : i < j => Precedes(list[i].node, list[j].node)
    /\ \A i \in 1..Len(list) : list[i].field = crudSchema.node[list[i].node].field

\* The nodes of a tableColumns tree, at any depth.
RECURSIVE TableNodes(_)
TableNodes(tree) ==
    UNION { {tree[i].node} \cup
            (IF tree[i].children.set THEN TableNodes(tree[i].children.list) ELSE {}) :
            i \in 1..Len(tree) }

ProperAncestors(n) == { Path(n)[k] : k \in 1..(Len(Path(n)) - 1) }

TableHidden(n) == crudSchema.node[n].table.show = "false"
TableKept(n) == ~TableHidden(n) /\ crudSchema.node[n].field # ""
TableDone == pc \in {"form", "detail", "return", "returned"}

\* A node whose search record is filled by a task: shown, api, no dictName.
ApiOnly(n) ==
    /\ crudSchema.node[n].search.show = "true"
    /\ crudSchema.node[n].search.api
    /\ crudSchema.node[n].search.dictName = Absent

\* What the search block's literal supplied as componentProps.
Supplied(n) ==
    IF crudSchema.node[n].search.props = "none" THEN EmptyProps
    ELSE PropsOfKind(crudSchema.node[n].search.props)

\* The translation of the option list L: the entries of L in their order, the
\* label translated, or with a labelField the key labelField written.
Translated(L, labelField) ==
    [i \in 1..Len(L) |->
        [value |-> L[i].value,
         label |-> IF labelField = Absent THEN t(L[i].label) ELSE L[i].label,
         labelField |-> IF labelField = Absent THEN L[i].labelField
                        ELSE t(L[i].labelField)]]

FirstIndex(list, f) ==
    CHOOSE i \in 1..Len(list) :
        /\ list[i].field = f
        /\ \A j \in 1..(i - 1) : list[j].field # f

HasRecord(list, f) == \E i \in 1..Len(list) : list[i].field = f

OptionsOf(rec) == heap[rec.componentProps].options

RecordOf(n) ==
    allSchemas.searchSchema[CHOOSE i \in 1..Len(allSchemas.searchSchema) :
                                allSchemas.searchSchema[i].node = n]

GotData(n) == fetch[n].kind = "object" /\ fetch[n].data.set

FetchFailed(n) ==
    \/ fetch[n].kind \in {"reject", "undefined"}
    \/ fetch[n].kind = "object" /\ ~fetch[n].data.set

\* The options of node n's record when useCrudSchemas returns.
AtReturn(n) ==
    IF crudSchema.node[n].search.dictName \in DictNames
    THEN List(Translated(DictInit[crudSchema.node[n].search.dictName], Absent))
    ELSE Supplied(n).options

AllTasksDone == pc = "returned" /\ \A n \in Nodes : task[n] # "awaiting"

----------------------------------------------------------------------------
(* Properties of the projections *)

C8_PreOrderOfVisible ==
    pc = "returned" =>
        /\ IsProjection(allSchemas.searchSchema,
                        {n \in Nodes : crudSchema.node[n].search.show = "true"})
        /\ IsProjection(allSchemas.formSchema,
                        {n \in Nodes : crudSchema.node[n].form.show # "false"})
        /\ IsProjection(allSchemas.detailSchema,
                        {n \in Nodes : crudSchema.node[n].detail.show # "false"})

\* A nested node is in the form list although its parent is hidden there, and
\* is itself hidden from the detail list.
C8_Witness ==
    /\ pc = "returned"
    /\ \E n \in Nodes :
          /\ crudSchema.parent[n] # 0
          /\ crudSchema.node[crudSchema.parent[n]].form.show = "false"
          /\ crudSchema.node[n].form.show # "false"
          /\ crudSchema.node[n].detail.show = "false"
          /\ \E i \in 1..Len(allSchemas.formSchema) : allSchemas.formSchema[i].node = n

----------------------------------------------------------------------------
(* Properties of the enrichment tasks *)

AllProjected ==
    /\ allSchemas.searchSchema = searchSchema
    /\ allSchemas.tableColumns = filterTableSchema(crudSchema)
    /\ allSchemas.formSchema = filterFormSchema(crudSchema)
    /\ allSchemas.detailSchema = filterDescriptionsSchema(crudSchema)

\* C1 as stated: until the four projections are computed and the aggregate is
\* returned, no task has called its api and no task has patched.
C1_NoApiCallBeforeReturn ==
    pc # "returned" => /\ \A n \in Nodes : fetch[n].kind = "none"
                       /\ written = {}

\* C1 as amended: a task calls its api inside the search projection, before
\* searchSchema is assigned; but until the four projections are computed and
\* the aggregate is returned no task goes past its fetch, and none patches.
C1_NoPatchBeforeReturn ==
    /\ pc \notin {"start", "threw"} => \A n \in Nodes : ApiOnly(n) => fetch[n].kind # "none"
    /\ pc # "returned" => /\ \A n \in Nodes : task[n] \in {"none", "awaiting"}
                          /\ \A n \in Nodes : fetch[n].kind \in {"none", "pending"}
                          /\ written = {}
    /\ (written # {} \/ \E n \in Nodes : task[n] \in {"fulfilled", "rejected"})
           => pc = "returned" /\ AllProjected

\* Every task of the tree has run to its end after the return, one patching.
C1_Witness ==
    /\ AllTasksDone
    /\ AllProjected
    /\ written # {}

\* C10: when useCrudSchemas returns, the record of every node with an api and
\* no dictName has the options its search block supplied (none if it supplied
\* none), and a task assigns options only after searchSchema holds the
\* assembled list and the aggregate has been returned.
C10_NoFetchedOptionsAtReturn ==
    [][ /\ (pc = "return" /\ pc' = "returned") =>
              \A n \in Nodes : ApiOnly(n) =>
                  /\ \E i \in 1..Len(allSchemas'.searchSchema) :
                        allSchemas'.searchSchema[i].node = n
                  /\ (OptionsOf(RecordOf(n)))' = Supplied(n).options
        /\ written' # written =>
              /\ pc = "returned"
              /\ allSchemas.searchSchema = searchSchema
              /\ \A n \in Nodes : ApiOnly(n) =>
                    \E i \in 1..Len(allSchemas.searchSchema) :
                        allSchemas.searchSchema[i].node = n
      ]_vars

\* useCrudSchemas has returned, the fetch of a node whose search block
\* supplied options is still pending and its record has those options.
C10_Witness ==
    /\ pc = "returned"
    /\ \E n \in Nodes :
          /\ ApiOnly(n)
          /\ crudSchema.node[n].search.props = "filled"
          /\ fetch[n].kind = "pending"
          /\ OptionsOf(RecordOf(n)) = List(L0)

\* No other node has a task for the same field.
OnlyTaskOfField(n) ==
    \A m \in Nodes \ {n} :
        ApiOnly(m) => crudSchema.node[m].field # crudSchema.node[n].field

\* The first record with node n's field has the translation of what n fetched.
Patched(n) ==
    /\ HasRecord(allSchemas.searchSchema, crudSchema.node[n].field)
    /\ OptionsOf(allSchemas.searchSchema[
                    FirstIndex(allSchemas.searchSchema, crudSchema.node[n].field)])
          = List(Translated(fetch[n].data.list, Supplied(n).labelField))

\* C2 as stated, its safety half: once the task of a node whose fetch
\* resolved with {data: L} has run, the first record with the node's field
\* has the translation of L, and keeps it.
C2_PatchedForGood ==
    \A n \in Nodes :
        (ApiOnly(n) /\ GotData(n) /\ task[n] = "fulfilled") => Patched(n)

\* C2 as amended: for a node with search.show true, an api and no dictName
\* whose fetch resolves with {data: L}, and whose field no other such node
\* has: the task eventually runs, and from then on the first record with the
\* node's field has the translation of L, the entries of L in their order.
C2_EventuallyPatchedForGood ==
    /\ [](\A n \in Nodes :
            (ApiOnly(n) /\ OnlyTaskOfField(n) /\ GotData(n) /\ task[n] = "fulfilled")
                => Patched(n))
    /\ <>[](\A n \in Nodes :
              (ApiOnly(n) /\ OnlyTaskOfField(n) /\ GotData(n))
                  => (task[n] = "fulfilled" /\ Patched(n)))

\* A fetch has resolved with the two-entry list and its task has patched.
C2_Witness ==
    \E n \in Nodes :
        /\ ApiOnly(n) /\ OnlyTaskOfField(n)
        /\ fetch[n] = [kind |-> "object", data |-> List(L1)]
        /\ task[n] = "fulfilled"
        /\ Patched(n)

\* C3: a task whose fetch rejected or resolved without a result has written
\* no options and has surfaced no error: its promise is not rejected.
C3_FailedFetchIsSilent ==
    \A n \in Nodes :
        (FetchFailed(n) /\ task[n] # "awaiting") =>
            /\ \A i \in 1..Len(allSchemas.searchSchema) : <<n, i>> \notin written
            /\ task[n] = "fulfilled"

\* A shown search node whose dictName has no dictionary entry.
MissingDict(n) ==
    /\ crudSchema.node[n].search.show = "true"
    /\ crudSchema.node[n].search.dictName # Absent
    /\ crudSchema.node[n].search.dictName \notin DictNames

\* C4: with a shown search node whose dictName has no dictionary entry,
\* useCrudSchemas raises no error and returns the four lists, the node's
\* record among them with no options populated.
C4_MissingDictIsSilent ==
    \A n \in Nodes :
        MissingDict(n) =>
            /\ pc # "threw"
            /\ pc = "returned" =>
                  /\ AllProjected
                  /\ \E i \in 1..Len(allSchemas.searchSchema) :
                        /\ allSchemas.searchSchema[i].node = n
                        /\ OptionsOf(allSchemas.searchSchema[i]) = Supplied(n).options

\* Every task has written only the record built from its own node, no two
\* tasks have written the same record, and once all tasks are done each
\* record's options depend on the input and the fetched lists alone.
TasksDisjoint ==
    /\ \A w \in written : allSchemas.searchSchema[w[2]].node = w[1]
    /\ \A w1, w2 \in written : w1[2] = w2[2] => w1[1] = w2[1]
    /\ AllTasksDone =>
          \A i \in 1..Len(allSchemas.searchSchema) :
              LET n == allSchemas.searchSchema[i].node
              IN  OptionsOf(allSchemas.searchSchema[i]) =
                      IF ApiOnly(n) /\ GotData(n)
                      THEN List(Translated(fetch[n].data.list, Supplied(n).labelField))
                      ELSE AtReturn(n)

\* C5 as stated: when the search nodes that carry an api have pairwise
\* distinct fields, the tasks write disjoint records, each its own, and the
\* final searchSchema does not depend on the order of the tasks.
C5_DistinctApiFields ==
    (\A a, b \in Nodes :
        (a # b /\ crudSchema.node[a].search.show = "true" /\ crudSchema.node[a].search.api
               /\ crudSchema.node[b].search.show = "true" /\ crudSchema.node[b].search.api)
            => crudSchema.node[a].field # crudSchema.node[b].field)
    => TasksDisjoint

\* C5 as amended: when all nodes with search.show true, with or without an
\* api, have pairwise distinct fields, the tasks write disjoint records, each
\* its own, and the final searchSchema does not depend on their order.
C5_DistinctSearchFields ==
    (\A a, b \in Nodes :
        (a # b /\ crudSchema.node[a].search.show = "true"
               /\ crudSchema.node[b].search.show = "true")
            => crudSchema.node[a].field # crudSchema.node[b].field)
    => TasksDisjoint

\* Two tasks of different fields have both patched.
C5_Witness ==
    /\ AllTasksDone
    /\ \E a, b \in Nodes :
          /\ a # b /\ ApiOnly(a) /\ ApiOnly(b)
          /\ crudSchema.node[a].field # crudSchema.node[b].field
          /\ GotData(a) /\ GotData(b)
          /\ fetch[a] # fetch[b]
          /\ \E i, j \in 1..Len(allSchemas.searchSchema) :
                <<a, i>> \in written /\ <<b, j>> \in written

\* C6: every componentProps object of the input tree, options included, is
\* at all times what the caller's literal made it.
C6_InputNeverMutated ==
    \A n \in Nodes :
        crudSchema.node[n].search.props # "none" =>
            heap[InRef(n)] = PropsOfKind(crudSchema.node[n].search.props)

\* C9: every write of a task goes to the first record, in list order, with
\* the field of the task's node; a record that is not the first of its field
\* keeps the options it had when useCrudSchemas returned, whatever its own
\* node fetched.
C9_FirstOfFieldPatched ==
    /\ \A w \in written :
          w[2] = FirstIndex(allSchemas.searchSchema, crudSchema.node[w[1]].field)
    /\ pc = "returned" =>
          \A j \in 1..Len(allSchemas.searchSchema) :
              j # FirstIndex(allSchemas.searchSchema, allSchemas.searchSchema[j].field)
                  => OptionsOf(allSchemas.searchSchema[j])
                         = AtReturn(allSchemas.searchSchema[j].node)

\* Two records share a field, the node of the later one has fetched data and
\* its task has written.
C9_Witness ==
    \E i, j \in 1..Len(allSchemas.searchSchema) :
        /\ i < j
        /\ allSchemas.searchSchema[i].field = allSchemas.searchSchema[j].field
        /\ ApiOnly(allSchemas.searchSchema[j].node)
        /\ GotData(allSchemas.searchSchema[j].node)
        /\ <<allSchemas.searchSchema[j].node, i>> \in written

====
